---- MODULE Spec2Model ----
(***************************************************************************)
(* Model of the art-commission canister, src/src/smartcontract/index.ts.   *)
(* State: the three StableBTreeMaps (artists, customers, commissions) and  *)
(* the value returned by the last update call.  Every update method is one *)
(* atomic step (the canister runs one update call at a time).               *)
(***************************************************************************)
EXTENDS Integers, Sequences, FiniteSets, TLC

\* ---------------------------------------------------------------- bounds
MaxArtists == 1
MaxCommissions == 1
MaxBudget == 1
\* how far below zero the exploration follows remaining_revision
MaxBelowZero == 1
RevisionFloor == 0 - MaxBelowZero

\* ------------------------------------------------------ program constants
\* number_of_revision / remaining_revision are int8
Int8Min == -128

\* identifiers the generator hands out; 0 stands for an identifier that was
\* never generated.  Customers carry no data the lifecycle reads, so one
\* customer identifier is sampled.
ArtistIds == 1..MaxArtists
CustomerIds == {1}
CommissionIds == 1..MaxCommissions
\* sampled call arguments: empty and non-empty text, zero and non-zero price,
\* negative, zero and positive revision budgets
Names == {"", "a"}
Prices == {0, 1}
Budgets == -1..MaxBudget
URLs == {"", "u1", "u2"}

MethodTypes == {"accept commission", "reject commission", "submit artwork",
                "request revision", "approve commission", "cancel commission"}

\* the two concurrent update calls of the interleaving study (SplitSpec)
Calls == {1, 2}

\* revisionsDone: per commission, the number of requestRevision calls that
\* returned Ok so far (history).  inFlight: the update calls that are between
\* their `commissions.get` and their `commissions.insert`, each with the
\* commission copy it holds; the canister never has one (Spec), SplitSpec does.
VARIABLES artists, customers, commissions, lastResult, revisionsDone, inFlight
vars == <<artists, customers, commissions, lastResult, revisionsDone, inFlight>>

\* ------------------------------------------------------------ data model
\* Status record: six booleans
NewStatus ==
    [Pending |-> TRUE, Accepted |-> FALSE, Rejected |-> FALSE,
     ArtworkSubmitted |-> FALSE, Approved |-> FALSE, Cancelled |-> FALSE]

\* JS truthiness of the values createArtist/createCustomer/submitArtwork test
\* with `!x`: the empty string is falsy, and so is zero (0 and 0n)
FalsyText(x) == x = ""
FalsyNumber(x) == x = 0

\* insert(key, value) of a StableBTreeMap: insert or overwrite
Insert(map, key, value) ==
    [k \in DOMAIN map \cup {key} |-> IF k = key THEN value ELSE map[k]]

\* results of an update call
Ok(op, id) == [op |-> op, id |-> id, kind |-> "Ok", msg |-> <<>>]
Err(op, id, kind, msg) == [op |-> op, id |-> id, kind |-> kind, msg |-> msg]

\* ------------------------------------------------- checkCommissionValidity
\* status.remaining_revision: the Status record has no such field, so the
\* read yields undefined and `undefined === 0` is false
StatusRemainingRevisionIsZero(status) == FALSE

\* the template string `cannot ${methodType}: ${commissionValidity}`
CannotMsg(methodType, reason) == <<"cannot ", methodType, ": ", reason>>
Valid == <<"valid">>

\* the conditions of the else-if chain, in source order
CancelledRule_Dropped(status, methodType) == FALSE
CancelledRule(status, methodType) == status.Cancelled

EndedRule_Dropped(status, methodType) == FALSE
EndedRule(status, methodType) == status.Approved

RejectedRule_Dropped(status, methodType) == FALSE
RejectedRule(status, methodType) == status.Rejected

NotYetAcceptedRule_CancelExempt(status, methodType) ==
    ~status.Accepted /\ (methodType # "accept commission"
                         /\ methodType # "reject commission"
                         /\ methodType # "cancel commission")
NotYetAcceptedRule(status, methodType) ==
    ~status.Accepted /\ (methodType # "accept commission"
                         /\ methodType # "reject commission")

AlreadyAcceptedRule(status, methodType) ==
    status.Accepted /\ (methodType = "accept commission"
                        \/ methodType = "reject commission")

ArtworkNotFinishedRule_RevisionOnly(status, methodType) ==
    ~status.ArtworkSubmitted /\ methodType = "request revision"
ArtworkNotFinishedRule_ApproveOnly(status, methodType) ==
    ~status.ArtworkSubmitted /\ methodType = "approve commission"
ArtworkNotFinishedRule(status, methodType) ==
    ~status.ArtworkSubmitted /\ (methodType = "approve commission"
                                 \/ methodType = "request revision")

NoMoreRevisionRule(status, methodType) ==
    methodType = "request revision" /\ StatusRemainingRevisionIsZero(status)

ValidityReason(status, methodType) ==
    IF CancelledRule(status, methodType) THEN "commission has been cancelled"
    ELSE IF EndedRule(status, methodType) THEN "commission has ended"
    ELSE IF RejectedRule(status, methodType) THEN "commission has been rejected"
    ELSE IF NotYetAcceptedRule(status, methodType)
         THEN "commission has yet to be accepted"
    ELSE IF AlreadyAcceptedRule(status, methodType)
         THEN "commission has been accepted"
    ELSE IF ArtworkNotFinishedRule(status, methodType)
         THEN "artwork not finished"
    ELSE IF NoMoreRevisionRule(status, methodType)
         THEN "no more revision can be made"
    ELSE "valid"

checkCommissionValidity(status, methodType) ==
    LET commissionValidity == ValidityReason(status, methodType)
    IN  IF commissionValidity # "valid"
        THEN CannotMsg(methodType, commissionValidity)
        ELSE Valid

\* the NotFound message of a lifecycle method
NotFoundMsg(verb, commissionID) ==
    <<"cannot ", verb, ": commission=", commissionID, " not found">>

\* ---------------------------------------------------------------- Init
Init ==
    /\ artists = <<>>
    /\ customers = <<>>
    /\ commissions = <<>>
    /\ lastResult = [op |-> "none", id |-> 0, kind |-> "none", msg |-> <<>>]
    /\ revisionsDone = <<>>
    /\ inFlight = <<>>

\* ---------------------------------------------------- creation handlers
\* uuidv4(): an identifier not used so far (uniqueness assumed); identifiers
\* are opaque, so the unused ones are handed out in order
FreshIds_Reused(ids, map) == ids
FreshIds(ids, map) ==
    LET unused == ids \ DOMAIN map
    IN  IF unused = {} THEN {}
        ELSE {CHOOSE i \in unused : \A j \in unused : i <= j}

createArtist_NoPriceCheck(store, artistID, artistName, price, number_of_revision) ==
    IF FalsyText(artistName) \/ FalsyNumber(number_of_revision)
    THEN [map |-> store,
          result |-> Err("createArtist", 0, "InvalidInput",
                         <<"Missing required fields in the artist object">>)]
    ELSE [map |-> Insert(store, artistID,
                         [artistID |-> artistID, artistName |-> artistName,
                          price |-> price,
                          number_of_revision |-> number_of_revision]),
          result |-> Ok("createArtist", artistID)]
createArtist(store, artistID, artistName, price, number_of_revision) ==
    IF FalsyText(artistName) \/ FalsyNumber(price) \/ FalsyNumber(number_of_revision)
    THEN [map |-> store,
          result |-> Err("createArtist", 0, "InvalidInput",
                         <<"Missing required fields in the artist object">>)]
    ELSE [map |-> Insert(store, artistID,
                         [artistID |-> artistID, artistName |-> artistName,
                          price |-> price,
                          number_of_revision |-> number_of_revision]),
          result |-> Ok("createArtist", artistID)]

createCustomer_InsertBeforeValidation(store, customerID, customerName) ==
    LET stored == Insert(store, customerID,
                         [customerID |-> customerID,
                          customerName |-> customerName])
    IN  IF FalsyText(customerName)
        THEN [map |-> stored,
              result |-> Err("createCustomer", 0, "InvalidInput",
                             <<"Missing required fields in the customer object">>)]
        ELSE [map |-> stored, result |-> Ok("createCustomer", customerID)]
createCustomer(store, customerID, customerName) ==
    IF FalsyText(customerName)
    THEN [map |-> store,
          result |-> Err("createCustomer", 0, "InvalidInput",
                         <<"Missing required fields in the customer object">>)]
    ELSE [map |-> Insert(store, customerID,
                         [customerID |-> customerID,
                          customerName |-> customerName]),
          result |-> Ok("createCustomer", customerID)]

\* the record createCommission builds: commissionID, customerID, the artist's
\* fields (of which the Commission record keeps artistID and price),
\* remaining_revision, artURL and status
NewCommission_ZeroRevisions(commissionID, customerID, artist) ==
    [commissionID |-> commissionID,
     customerID |-> customerID,
     artistID |-> artist.artistID,
     price |-> artist.price,
     remaining_revision |-> 0,
     artURL |-> "",
     status |-> NewStatus]
NewCommission(commissionID, customerID, artist) ==
    [commissionID |-> commissionID,
     customerID |-> customerID,
     artistID |-> artist.artistID,
     price |-> artist.price,
     remaining_revision |-> artist.number_of_revision,
     artURL |-> "",
     status |-> NewStatus]

createCommission_InsertBeforeCustomerCheck(store, commissionID, artistID, customerID) ==
    IF artistID \notin DOMAIN artists
    THEN [map |-> store,
          result |-> Err("createCommission", 0, "NotFound",
                         <<"cannot create the commission: artist=", artistID,
                           " not found">>)]
    ELSE LET stored == Insert(store, commissionID,
                              NewCommission(commissionID, customerID,
                                            artists[artistID]))
         IN  IF customerID \notin DOMAIN customers
             THEN [map |-> stored,
                   result |-> Err("createCommission", 0, "NotFound",
                                  <<"cannot create the commission: customer=",
                                    customerID, " not found">>)]
             ELSE [map |-> stored,
                   result |-> Ok("createCommission", commissionID)]
createCommission_NoCustomerCheck(store, commissionID, artistID, customerID) ==
    IF artistID \notin DOMAIN artists
    THEN [map |-> store,
          result |-> Err("createCommission", 0, "NotFound",
                         <<"cannot create the commission: artist=", artistID,
                           " not found">>)]
    ELSE [map |-> Insert(store, commissionID,
                         NewCommission(commissionID, customerID,
                                       artists[artistID])),
          result |-> Ok("createCommission", commissionID)]
createCommission_NoInsert(store, commissionID, artistID, customerID) ==
    IF artistID \notin DOMAIN artists
    THEN [map |-> store,
          result |-> Err("createCommission", 0, "NotFound",
                         <<"cannot create the commission: artist=", artistID,
                           " not found">>)]
    ELSE IF customerID \notin DOMAIN customers
    THEN [map |-> store,
          result |-> Err("createCommission", 0, "NotFound",
                         <<"cannot create the commission: customer=", customerID,
                           " not found">>)]
    ELSE [map |-> store, result |-> Ok("createCommission", commissionID)]
createCommission(store, commissionID, artistID, customerID) ==
    IF artistID \notin DOMAIN artists
    THEN [map |-> store,
          result |-> Err("createCommission", 0, "NotFound",
                         <<"cannot create the commission: artist=", artistID,
                           " not found">>)]
    ELSE IF customerID \notin DOMAIN customers
    THEN [map |-> store,
          result |-> Err("createCommission", 0, "NotFound",
                         <<"cannot create the commission: customer=", customerID,
                           " not found">>)]
    ELSE LET artist == artists[artistID]
         IN [map |-> Insert(store, commissionID,
                            NewCommission(commissionID, customerID, artist)),
             result |-> Ok("createCommission", commissionID)]

CreateArtist ==
    \E artistName \in Names, price \in Prices, n \in Budgets :
      \E artistID \in IF FreshIds(ArtistIds, artists) = {} THEN {0}
                      ELSE FreshIds(ArtistIds, artists) :
        LET r == createArtist(artists, artistID, artistName, price, n)
        IN  /\ (artistID = 0 => r.result.kind # "Ok")
            /\ artists' = r.map
            /\ lastResult' = r.result
            /\ UNCHANGED <<customers, commissions, revisionsDone, inFlight>>

CreateCustomer ==
    \E customerName \in Names :
      \E customerID \in IF FreshIds(CustomerIds, customers) = {} THEN {0}
                        ELSE FreshIds(CustomerIds, customers) :
        LET r == createCustomer(customers, customerID, customerName)
        IN  /\ (customerID = 0 => r.result.kind # "Ok")
            /\ customers' = r.map
            /\ lastResult' = r.result
            /\ UNCHANGED <<artists, commissions, revisionsDone, inFlight>>

CreateCommission ==
    \E artistID \in ArtistIds \cup {0}, customerID \in CustomerIds \cup {0} :
      \E commissionID \in IF FreshIds(CommissionIds, commissions) = {} THEN {0}
                          ELSE FreshIds(CommissionIds, commissions) :
        LET r == createCommission(commissions, commissionID, artistID, customerID)
        IN  /\ (commissionID = 0 => r.result.kind # "Ok")
            /\ commissions' = r.map
            /\ lastResult' = r.result
            /\ revisionsDone' = IF r.result.kind = "Ok"
                                THEN Insert(revisionsDone, commissionID, 0)
                                ELSE revisionsDone
            /\ UNCHANGED <<artists, customers, inFlight>>

\* ---------------------------------------------------- lifecycle handlers
\* Each handler: get the commission (NotFound), run the guard
\* (InvalidTransaction), apply the effect to the copy and insert it back.
approveCommission_NoInsert(store, commissionID) ==
    IF commissionID \notin DOMAIN store
    THEN [map |-> store,
          result |-> Err("approveCommission", commissionID, "NotFound",
                         NotFoundMsg("approve commission", commissionID))]
    ELSE LET commissionValidity ==
                 checkCommissionValidity(store[commissionID].status,
                                         "approve commission")
         IN  IF commissionValidity # Valid
             THEN [map |-> store,
                   result |-> Err("approveCommission", commissionID,
                                  "InvalidTransaction", commissionValidity)]
             ELSE [map |-> store,
                   result |-> Ok("approveCommission", commissionID)]
approveCommission(store, commissionID) ==
    IF commissionID \notin DOMAIN store
    THEN [map |-> store,
          result |-> Err("approveCommission", commissionID, "NotFound",
                         NotFoundMsg("approve commission", commissionID))]
    ELSE LET commission == store[commissionID]
             commissionValidity ==
                 checkCommissionValidity(commission.status, "approve commission")
         IN  IF commissionValidity # Valid
             THEN [map |-> store,
                   result |-> Err("approveCommission", commissionID,
                                  "InvalidTransaction", commissionValidity)]
             ELSE [map |-> Insert(store, commissionID,
                                  [commission EXCEPT !.status.Approved = TRUE]),
                   result |-> Ok("approveCommission", commissionID)]

\* `commission.remaining_revision === 0`
NoRemainingRevision_Negative(commission) == commission.remaining_revision < 0
NoRemainingRevision(commission) == commission.remaining_revision = 0

\* `commission.remaining_revision--; commission.status.ArtworkSubmitted = false`
RevisionEffect_KeepSubmitted(commission) ==
    [commission EXCEPT !.remaining_revision = @ - 1]
RevisionEffect_Increment(commission) ==
    [commission EXCEPT !.remaining_revision = @ + 1,
                       !.status.ArtworkSubmitted = FALSE]
RevisionEffect(commission) ==
    [commission EXCEPT !.remaining_revision = @ - 1,
                       !.status.ArtworkSubmitted = FALSE]

\* A remaining_revision below the int8 range cannot be encoded into the
\* reply: the call traps and the canister state is rolled back.
requestRevision(store, commissionID) ==
    IF commissionID \notin DOMAIN store
    THEN [map |-> store,
          result |-> Err("requestRevision", commissionID, "NotFound",
                         NotFoundMsg("request revision", commissionID))]
    ELSE LET commission == store[commissionID]
             commissionValidity ==
                 checkCommissionValidity(commission.status, "request revision")
         IN  IF commissionValidity # Valid
             THEN [map |-> store,
                   result |-> Err("requestRevision", commissionID,
                                  "InvalidTransaction", commissionValidity)]
             ELSE IF NoRemainingRevision(commission)
             THEN [map |-> store,
                   result |-> Err("requestRevision", commissionID,
                                  "NoRemainingRevision",
                                  <<"no more revision can be made">>)]
             ELSE IF commission.remaining_revision - 1 < Int8Min
             THEN [map |-> store,
                   result |-> Err("requestRevision", commissionID, "Trap", <<>>)]
             ELSE [map |-> Insert(store, commissionID, RevisionEffect(commission)),
                   result |-> Ok("requestRevision", commissionID)]

acceptCommission_ClearsPending(store, commissionID) ==
    IF commissionID \notin DOMAIN store
    THEN [map |-> store,
          result |-> Err("acceptCommission", commissionID, "NotFound",
                         NotFoundMsg("accept commission", commissionID))]
    ELSE LET commission == store[commissionID]
             commissionValidity ==
                 checkCommissionValidity(commission.status, "accept commission")
         IN  IF commissionValidity # Valid
             THEN [map |-> store,
                   result |-> Err("acceptCommission", commissionID,
                                  "InvalidTransaction", commissionValidity)]
             ELSE [map |-> Insert(store, commissionID,
                                  [commission EXCEPT !.status.Accepted = TRUE,
                                                     !.status.Pending = FALSE]),
                   result |-> Ok("acceptCommission", commissionID)]
acceptCommission(store, commissionID) ==
    IF commissionID \notin DOMAIN store
    THEN [map |-> store,
          result |-> Err("acceptCommission", commissionID, "NotFound",
                         NotFoundMsg("accept commission", commissionID))]
    ELSE LET commission == store[commissionID]
             commissionValidity ==
                 checkCommissionValidity(commission.status, "accept commission")
         IN  IF commissionValidity # Valid
             THEN [map |-> store,
                   result |-> Err("acceptCommission", commissionID,
                                  "InvalidTransaction", commissionValidity)]
             ELSE [map |-> Insert(store, commissionID,
                                  [commission EXCEPT !.status.Accepted = TRUE]),
                   result |-> Ok("acceptCommission", commissionID)]

rejectCommission(store, commissionID) ==
    IF commissionID \notin DOMAIN store
    THEN [map |-> store,
          result |-> Err("rejectCommission", commissionID, "NotFound",
                         NotFoundMsg("reject commission", commissionID))]
    ELSE LET commission == store[commissionID]
             commissionValidity ==
                 checkCommissionValidity(commission.status, "reject commission")
         IN  IF commissionValidity # Valid
             THEN [map |-> store,
                   result |-> Err("rejectCommission", commissionID,
                                  "InvalidTransaction", commissionValidity)]
             ELSE [map |-> Insert(store, commissionID,
                                  [commission EXCEPT !.status.Rejected = TRUE]),
                   result |-> Ok("rejectCommission", commissionID)]

submitArtwork_ResubmitConsumesRevision(store, commissionID, artURL) ==
    IF commissionID \notin DOMAIN store
    THEN [map |-> store,
          result |-> Err("submitArtwork", commissionID, "NotFound",
                         NotFoundMsg("submit artwork", commissionID))]
    ELSE LET commission == store[commissionID]
             commissionValidity ==
                 checkCommissionValidity(commission.status, "submit artwork")
         IN  IF commissionValidity # Valid
             THEN [map |-> store,
                   result |-> Err("submitArtwork", commissionID,
                                  "InvalidTransaction", commissionValidity)]
             ELSE IF FalsyText(artURL)
             THEN [map |-> store,
                   result |-> Err("submitArtwork", commissionID, "InvalidInput",
                                  <<"Missing required fields in the artwork object">>)]
             ELSE [map |-> Insert(store, commissionID,
                                  [commission EXCEPT
                                     !.artURL = artURL,
                                     !.remaining_revision =
                                        IF commission.status.ArtworkSubmitted
                                        THEN @ - 1 ELSE @,
                                     !.status.ArtworkSubmitted = TRUE]),
                   result |-> Ok("submitArtwork", commissionID)]
submitArtwork_NoUrlCheck(store, commissionID, artURL) ==
    IF commissionID \notin DOMAIN store
    THEN [map |-> store,
          result |-> Err("submitArtwork", commissionID, "NotFound",
                         NotFoundMsg("submit artwork", commissionID))]
    ELSE LET commission == store[commissionID]
             commissionValidity ==
                 checkCommissionValidity(commission.status, "submit artwork")
         IN  IF commissionValidity # Valid
             THEN [map |-> store,
                   result |-> Err("submitArtwork", commissionID,
                                  "InvalidTransaction", commissionValidity)]
             ELSE [map |-> Insert(store, commissionID,
                                  [commission EXCEPT
                                     !.artURL = artURL,
                                     !.status.ArtworkSubmitted = TRUE]),
                   result |-> Ok("submitArtwork", commissionID)]
submitArtwork(store, commissionID, artURL) ==
    IF commissionID \notin DOMAIN store
    THEN [map |-> store,
          result |-> Err("submitArtwork", commissionID, "NotFound",
                         NotFoundMsg("submit artwork", commissionID))]
    ELSE LET commission == store[commissionID]
             commissionValidity ==
                 checkCommissionValidity(commission.status, "submit artwork")
         IN  IF commissionValidity # Valid
             THEN [map |-> store,
                   result |-> Err("submitArtwork", commissionID,
                                  "InvalidTransaction", commissionValidity)]
             ELSE IF FalsyText(artURL)
             THEN [map |-> store,
                   result |-> Err("submitArtwork", commissionID, "InvalidInput",
                                  <<"Missing required fields in the artwork object">>)]
             ELSE [map |-> Insert(store, commissionID,
                                  [commission EXCEPT
                                     !.artURL = artURL,
                                     !.status.ArtworkSubmitted = TRUE]),
                   result |-> Ok("submitArtwork", commissionID)]

cancelCommission(store, commissionID) ==
    IF commissionID \notin DOMAIN store
    THEN [map |-> store,
          result |-> Err("cancelCommission", commissionID, "NotFound",
                         NotFoundMsg("cancel commission", commissionID))]
    ELSE LET commission == store[commissionID]
             commissionValidity ==
                 checkCommissionValidity(commission.status, "cancel commission")
         IN  IF commissionValidity # Valid
             THEN [map |-> store,
                   result |-> Err("cancelCommission", commissionID,
                                  "InvalidTransaction", commissionValidity)]
             ELSE [map |-> Insert(store, commissionID,
                                  [commission EXCEPT !.status.Cancelled = TRUE]),
                   result |-> Ok("cancelCommission", commissionID)]

\* ---------------------------------------------------------------- actions
\* one update call = one step; the argument is any commission id, stored or not
ApproveCommission ==
    \E commissionID \in CommissionIds :
        LET r == approveCommission(commissions, commissionID)
        IN  /\ commissions' = r.map
            /\ lastResult' = r.result
            /\ UNCHANGED <<artists, customers, revisionsDone, inFlight>>

\* exploration does not follow successful decrements below RevisionFloor
RequestRevision ==
    \E commissionID \in CommissionIds :
        LET r == requestRevision(commissions, commissionID)
        IN  /\ r.result.kind = "Ok" =>
                 r.map[commissionID].remaining_revision >= RevisionFloor
            /\ commissions' = r.map
            /\ lastResult' = r.result
            /\ revisionsDone' = IF r.result.kind = "Ok"
                                THEN [revisionsDone EXCEPT ![commissionID] = @ + 1]
                                ELSE revisionsDone
            /\ UNCHANGED <<artists, customers, inFlight>>

AcceptCommission ==
    \E commissionID \in CommissionIds :
        LET r == acceptCommission(commissions, commissionID)
        IN  /\ commissions' = r.map
            /\ lastResult' = r.result
            /\ UNCHANGED <<artists, customers, revisionsDone, inFlight>>

RejectCommission ==
    \E commissionID \in CommissionIds :
        LET r == rejectCommission(commissions, commissionID)
        IN  /\ commissions' = r.map
            /\ lastResult' = r.result
            /\ UNCHANGED <<artists, customers, revisionsDone, inFlight>>

SubmitArtwork ==
    \E commissionID \in CommissionIds, artURL \in URLs :
        LET r == submitArtwork(commissions, commissionID, artURL)
        IN  /\ commissions' = r.map
            /\ lastResult' = r.result
            /\ UNCHANGED <<artists, customers, revisionsDone, inFlight>>

CancelCommission ==
    \E commissionID \in CommissionIds :
        LET r == cancelCommission(commissions, commissionID)
        IN  /\ commissions' = r.map
            /\ lastResult' = r.result
            /\ UNCHANGED <<artists, customers, revisionsDone, inFlight>>

Next ==
    \/ CreateArtist
    \/ CreateCustomer
    \/ CreateCommission
    \/ ApproveCommission
    \/ RequestRevision
    \/ AcceptCommission
    \/ RejectCommission
    \/ SubmitArtwork
    \/ CancelCommission

Spec == Init /\ [][Next]_vars

\* ------------------------------------------- interleaved get and insert
\* What the handlers would do on a host that does not run one update call at
\* a time: the `commissions.get` of a call and the rest of its body
\* (guard, mutation of the copy, `commissions.insert`) are separate steps, and
\* a second call on the same commission may run between them.
SplitOps == {"approveCommission", "cancelCommission", "requestRevision"}

\* the handler body after the lookup, run on the copy the call holds
HandlerOnCopy(op, store, commissionID, copy) ==
    LET held == Insert(store, commissionID, copy)
    IN  CASE op = "approveCommission" -> approveCommission(held, commissionID)
          [] op = "cancelCommission" -> cancelCommission(held, commissionID)
          [] op = "requestRevision" -> requestRevision(held, commissionID)

\* `const commissionOpt = commissions.get(commissionID)` with a Some result;
\* call 2 is the one that starts while call 1 is in flight
GetCommission ==
    \E k \in Calls \ DOMAIN inFlight, op \in SplitOps,
       commissionID \in DOMAIN commissions :
        /\ k = 2 => 1 \in DOMAIN inFlight
        /\ inFlight' = Insert(inFlight, k,
                              [op |-> op, id |-> commissionID,
                               commission |-> commissions[commissionID]])
        /\ UNCHANGED <<artists, customers, commissions, lastResult,
                       revisionsDone>>

\* guard, mutation and `commissions.insert(commissionID, commission)`: an
\* error return stores nothing
PutCommission ==
    \E k \in DOMAIN inFlight :
        LET call == inFlight[k]
            r == HandlerOnCopy(call.op, commissions, call.id, call.commission)
        IN  /\ (call.op = "requestRevision" /\ r.result.kind = "Ok") =>
                  r.map[call.id].remaining_revision >= RevisionFloor
            /\ commissions' = IF r.result.kind = "Ok" THEN r.map ELSE commissions
            /\ lastResult' = r.result
            /\ revisionsDone' =
                  IF call.op = "requestRevision" /\ r.result.kind = "Ok"
                  THEN [revisionsDone EXCEPT ![call.id] = @ + 1]
                  ELSE revisionsDone
            /\ inFlight' = [j \in DOMAIN inFlight \ {k} |-> inFlight[j]]
            /\ UNCHANGED <<artists, customers>>

\* the study starts from one commission that is accepted and has artwork
\* submitted: the state Spec reaches by createArtist, createCustomer,
\* createCommission, acceptCommission, submitArtwork
SplitInit ==
    /\ \E n \in Budgets \ {0} :
         artists = createArtist(<<>>, 1, "a", 1, n).map
    /\ customers = createCustomer(<<>>, 1, "a").map
    /\ LET created == createCommission(<<>>, 1, 1, 1).map
           accepted == acceptCommission(created, 1).map
           submitted == submitArtwork(accepted, 1, "u1")
       IN  /\ commissions = submitted.map
           /\ lastResult = submitted.result
    /\ revisionsDone = Insert(<<>>, 1, 0)
    /\ inFlight = <<>>

\* approve, cancel and request revision run split; submitArtwork runs whole
SplitNext ==
    \/ SubmitArtwork
    \/ GetCommission
    \/ PutCommission

SplitSpec == SplitInit /\ [][SplitNext]_vars

\* ------------------------------------------------------- claim vocabulary
Terminal(status) == status.Approved \/ status.Rejected \/ status.Cancelled
TerminalFlags(status) ==
    {f \in {"Approved", "Rejected", "Cancelled"} : status[f]}
LifecycleOps == {"acceptCommission", "rejectCommission", "submitArtwork",
                 "requestRevision", "approveCommission", "cancelCommission"}
ErrorKinds == {"NotFound", "InvalidInput", "InvalidTransaction",
               "NoRemainingRevision"}
\* the step just taken was a call of op on commission c
Called(op, c) == lastResult'.op = op /\ lastResult'.id = c
Denied(methodType, reason) ==
    /\ lastResult'.kind = "InvalidTransaction"
    /\ lastResult'.msg = <<"cannot ", methodType, ": ", reason>>

\* C1: cancelCommission succeeds (sets Cancelled, stores the commission) from
\* every non-terminal state, accepted or not, and fails with
\* InvalidTransaction from every terminal state.
C1_CancelFromEveryNonTerminalState ==
    [][\A c \in DOMAIN commissions :
         Called("cancelCommission", c) =>
           IF Terminal(commissions[c].status)
           THEN lastResult'.kind = "InvalidTransaction"
                /\ commissions' = commissions
           ELSE lastResult'.kind = "Ok"
                /\ commissions' = [commissions EXCEPT ![c].status.Cancelled = TRUE]
      ]_vars

\* C2: every stored commission has remaining_revision >= 0.
C2_RemainingRevisionNeverNegative ==
    \A c \in DOMAIN commissions : commissions[c].remaining_revision >= 0

\* C3: a commission never has two of Approved, Rejected, Cancelled set: it has
\* none until a reject, approve or cancel succeeds on it and exactly one from
\* then on.
C3_AtMostOneTerminalFlag ==
    [][\A c \in DOMAIN commissions' :
         LET after == Cardinality(TerminalFlags(commissions'[c].status))
         IN  /\ after <= 1
             /\ c \notin DOMAIN commissions => after = 0
             /\ c \in DOMAIN commissions =>
                  LET before == Cardinality(TerminalFlags(commissions[c].status))
                  IN  IF /\ lastResult'.kind = "Ok"
                         /\ lastResult'.id = c
                         /\ lastResult'.op \in {"rejectCommission",
                                                "approveCommission",
                                                "cancelCommission"}
                      THEN before = 0 /\ after = 1
                      ELSE after = before
      ]_vars
C3_Witness ==
    \E c \in DOMAIN commissions :
        /\ TerminalFlags(commissions[c].status) = {"Cancelled"}
        /\ lastResult.id = c
        /\ lastResult.op = "approveCommission"
        /\ lastResult.kind = "InvalidTransaction"

\* C4: once a commission is terminal, every lifecycle call on it returns an
\* error and its stored record never changes again.
C4_TerminalIsFinal ==
    [][\A c \in DOMAIN commissions :
         Terminal(commissions[c].status) =>
           /\ c \in DOMAIN commissions'
           /\ commissions'[c] = commissions[c]
           /\ (lastResult'.id = c /\ lastResult'.op \in LifecycleOps)
                => lastResult'.kind \in ErrorKinds
      ]_vars
C4_Witness ==
    \E c \in DOMAIN commissions :
        /\ commissions[c].status.Rejected
        /\ lastResult.id = c
        /\ lastResult.op = "submitArtwork"
        /\ lastResult.kind \in ErrorKinds

\* C5: a call that returns an error leaves the three maps as they were; a call
\* that returns success has stored its whole effect.
C5_AllOrNothing ==
    [][LET op == lastResult'.op
           id == lastResult'.id
       IN  IF lastResult'.kind # "Ok"
           THEN UNCHANGED <<artists, customers, commissions>>
           ELSE
             \/ /\ op = "createArtist"
                /\ id \notin DOMAIN artists
                /\ DOMAIN artists' = DOMAIN artists \cup {id}
                /\ artists'[id].artistID = id
                /\ artists'[id].artistName # ""
                /\ \A a \in DOMAIN artists : artists'[a] = artists[a]
                /\ UNCHANGED <<customers, commissions>>
             \/ /\ op = "createCustomer"
                /\ id \notin DOMAIN customers
                /\ DOMAIN customers' = DOMAIN customers \cup {id}
                /\ customers'[id].customerID = id
                /\ customers'[id].customerName # ""
                /\ \A a \in DOMAIN customers : customers'[a] = customers[a]
                /\ UNCHANGED <<artists, commissions>>
             \/ /\ op = "createCommission"
                /\ id \notin DOMAIN commissions
                /\ DOMAIN commissions' = DOMAIN commissions \cup {id}
                /\ commissions'[id].commissionID = id
                /\ commissions'[id].status = NewStatus
                /\ commissions'[id].artURL = ""
                /\ \A c \in DOMAIN commissions : commissions'[c] = commissions[c]
                /\ UNCHANGED <<artists, customers>>
             \/ /\ op \in LifecycleOps
                /\ id \in DOMAIN commissions
                /\ UNCHANGED <<artists, customers>>
                /\ \E new \in
                     CASE op = "acceptCommission" ->
                            {[commissions[id] EXCEPT !.status.Accepted = TRUE]}
                       [] op = "rejectCommission" ->
                            {[commissions[id] EXCEPT !.status.Rejected = TRUE]}
                       [] op = "approveCommission" ->
                            {[commissions[id] EXCEPT !.status.Approved = TRUE]}
                       [] op = "cancelCommission" ->
                            {[commissions[id] EXCEPT !.status.Cancelled = TRUE]}
                       [] op = "requestRevision" ->
                            {[commissions[id] EXCEPT
                                !.remaining_revision = @ - 1,
                                !.status.ArtworkSubmitted = FALSE]}
                       [] op = "submitArtwork" ->
                            {[commissions[id] EXCEPT
                                !.artURL = u,
                                !.status.ArtworkSubmitted = TRUE]
                             : u \in URLs \ {""}} :
                     /\ new # commissions[id] \/ op = "submitArtwork"
                     /\ commissions' = [commissions EXCEPT ![id] = new]
      ]_vars
C5_Witness ==
    \E c \in DOMAIN commissions :
        /\ lastResult.id = c
        /\ lastResult.op = "submitArtwork"
        /\ lastResult.kind = "InvalidInput"
        /\ commissions[c].status.Accepted
        /\ ~commissions[c].status.ArtworkSubmitted
        /\ commissions[c].artURL = ""

\* C6: requestRevision on an accepted, non-terminal commission with
\* ArtworkSubmitted set and remaining_revision = 0 returns
\* NoRemainingRevision and leaves the commission unchanged.
C6_NoRemainingRevision ==
    [][\A c \in DOMAIN commissions :
         ( /\ Called("requestRevision", c)
           /\ commissions[c].status.Accepted
           /\ ~Terminal(commissions[c].status)
           /\ commissions[c].status.ArtworkSubmitted
           /\ commissions[c].remaining_revision = 0 )
         => /\ lastResult'.kind = "NoRemainingRevision"
            /\ lastResult'.msg = <<"no more revision can be made">>
            /\ commissions' = commissions
            /\ commissions'[c].remaining_revision = 0
            /\ commissions'[c].status.ArtworkSubmitted
      ]_vars
C6_Witness ==
    \E c \in DOMAIN commissions :
        /\ lastResult.id = c
        /\ lastResult.op = "requestRevision"
        /\ lastResult.kind = "NoRemainingRevision"
        /\ commissions[c].remaining_revision = 0
        /\ commissions[c].status.ArtworkSubmitted
        /\ commissions[c].artURL = "u2"

\* C7: a successful requestRevision decrements remaining_revision by exactly
\* one, clears ArtworkSubmitted, keeps Accepted, sets no terminal flag and
\* changes nothing else; from a budget of 1 it ends at 0.
C7_RevisionEffect ==
    [][\A c \in DOMAIN commissions :
         (Called("requestRevision", c) /\ lastResult'.kind = "Ok")
         => /\ commissions'[c].remaining_revision
                 = commissions[c].remaining_revision - 1
            /\ ~commissions'[c].status.ArtworkSubmitted
            /\ commissions[c].status.Accepted
            /\ commissions'[c].status.Accepted
            /\ ~Terminal(commissions'[c].status)
            /\ commissions' =
                 [commissions EXCEPT
                    ![c].remaining_revision = @ - 1,
                    ![c].status.ArtworkSubmitted = FALSE]
            /\ UNCHANGED <<artists, customers>>
            /\ (commissions[c].remaining_revision = 1
                  => commissions'[c].remaining_revision = 0)
      ]_vars
C7_Witness ==
    \E c \in DOMAIN commissions :
        /\ lastResult = Ok("requestRevision", c)
        /\ artists[commissions[c].artistID].number_of_revision = 1
        /\ commissions[c].remaining_revision = 0
        /\ ~commissions[c].status.ArtworkSubmitted
        /\ commissions[c].status.Accepted
        /\ ~Terminal(commissions[c].status)
        /\ commissions[c].artURL = "u1"

\* C8: approveCommission on an accepted commission with ArtworkSubmitted set
\* succeeds and sets Approved; from then on accept, reject, submit artwork,
\* request revision and cancel on it are denied with "commission has ended".
C8_ApproveEndsCommission ==
    [][\A c \in DOMAIN commissions :
         /\ ( /\ Called("approveCommission", c)
              /\ commissions[c].status.Accepted
              /\ commissions[c].status.ArtworkSubmitted
              /\ ~Terminal(commissions[c].status) )
            => /\ lastResult'.kind = "Ok"
               /\ commissions'[c].status.Approved
         /\ commissions[c].status.Approved =>
              /\ Called("acceptCommission", c)
                   => Denied("accept commission", "commission has ended")
              /\ Called("rejectCommission", c)
                   => Denied("reject commission", "commission has ended")
              /\ Called("submitArtwork", c)
                   => Denied("submit artwork", "commission has ended")
              /\ Called("requestRevision", c)
                   => Denied("request revision", "commission has ended")
              /\ Called("cancelCommission", c)
                   => Denied("cancel commission", "commission has ended")
      ]_vars
C8_Witness ==
    \E c \in DOMAIN commissions :
        /\ commissions[c].status.Approved
        /\ lastResult.id = c
        /\ lastResult.op = "cancelCommission"
        /\ lastResult.kind = "InvalidTransaction"
        /\ lastResult.msg = <<"cannot ", "cancel commission", ": ",
                              "commission has ended">>

\* C9: rejectCommission on a commission that has not been accepted succeeds
\* and sets Rejected; every later acceptCommission on it is denied with
\* "commission has been rejected".
C9_RejectThenAcceptDenied ==
    [][\A c \in DOMAIN commissions :
         /\ ( /\ Called("rejectCommission", c)
              /\ ~commissions[c].status.Accepted
              /\ ~Terminal(commissions[c].status) )
            => /\ lastResult'.kind = "Ok"
               /\ commissions'[c].status.Rejected
         /\ (commissions[c].status.Rejected /\ Called("acceptCommission", c))
            => /\ Denied("accept commission", "commission has been rejected")
               /\ commissions' = commissions
      ]_vars
C9_Witness ==
    \E c \in DOMAIN commissions :
        /\ commissions[c].status.Rejected
        /\ ~commissions[c].status.Accepted
        /\ lastResult.id = c
        /\ lastResult.op = "acceptCommission"
        /\ lastResult.msg = <<"cannot ", "accept commission", ": ",
                              "commission has been rejected">>

\* C10: repeating accept, reject, approve, cancel or request revision right
\* after it succeeded on a commission returns InvalidTransaction (for accept:
\* "commission has been accepted") and leaves the commission unchanged.
C10_NotIdempotent ==
    [][( /\ lastResult.kind = "Ok"
         /\ lastResult.op \in {"acceptCommission", "rejectCommission",
                               "approveCommission", "cancelCommission",
                               "requestRevision"}
         /\ Called(lastResult.op, lastResult.id) )
       => /\ lastResult'.kind = "InvalidTransaction"
          /\ commissions' = commissions
          /\ lastResult.op = "acceptCommission"
               => Denied("accept commission", "commission has been accepted")
      ]_vars
C10_Witness ==
    \E c \in DOMAIN commissions :
        /\ commissions[c].status = [NewStatus EXCEPT !.Accepted = TRUE]
        /\ lastResult.id = c
        /\ lastResult.op = "acceptCommission"
        /\ lastResult.msg = <<"cannot ", "accept commission", ": ",
                              "commission has been accepted">>

\* ------------------------------------------------- creation and guard claims
\* the arguments a call can be given: any generated identifier, or 0
ArtistArgs == ArtistIds \cup {0}
CustomerArgs == CustomerIds \cup {0}

\* C11: a successful createCommission(artistID, customerID) stores exactly one
\* new commission: Pending set and every other flag clear, remaining_revision
\* and price copied from the artist, artURL empty, artistID and customerID
\* equal to the arguments.
C11_NewCommissionSnapshot ==
    [][/\ \A a \in ArtistArgs, cu \in CustomerArgs :
            \A id \in FreshIds(CommissionIds, commissions) :
              LET r == createCommission(commissions, id, a, cu)
              IN  r.result.kind = "Ok" =>
                    /\ a \in DOMAIN artists
                    /\ DOMAIN r.map = DOMAIN commissions \cup {id}
                    /\ \A c \in DOMAIN commissions : r.map[c] = commissions[c]
                    /\ r.map[id] =
                         [commissionID |-> id,
                          customerID |-> cu,
                          artistID |-> a,
                          price |-> artists[a].price,
                          remaining_revision |-> artists[a].number_of_revision,
                          artURL |-> "",
                          status |-> [Pending |-> TRUE, Accepted |-> FALSE,
                                      Rejected |-> FALSE,
                                      ArtworkSubmitted |-> FALSE,
                                      Approved |-> FALSE, Cancelled |-> FALSE]]
       /\ (lastResult'.op = "createCommission" /\ lastResult'.kind = "Ok") =>
            LET id == lastResult'.id
            IN  /\ id \notin DOMAIN commissions
                /\ DOMAIN commissions' = DOMAIN commissions \cup {id}
                /\ \E a \in DOMAIN artists, cu \in DOMAIN customers :
                     commissions' = createCommission(commissions, id, a, cu).map
      ]_vars
C11_Witness ==
    \E c \in DOMAIN commissions :
        /\ lastResult = Ok("createCommission", c)
        /\ commissions[c].status.Pending
        /\ commissions[c].artURL = ""
        /\ commissions[c].remaining_revision
             = artists[commissions[c].artistID].number_of_revision
        /\ commissions[c].price = artists[commissions[c].artistID].price

\* C12: createCommission with an artistID that is not stored, or a customerID
\* that is not stored, returns NotFound and leaves the commissions map as it
\* was.
C12_CreateCommissionNotFound ==
    /\ \A a \in ArtistArgs, cu \in CustomerArgs, id \in CommissionIds \cup {0} :
         (a \notin DOMAIN artists \/ cu \notin DOMAIN customers) =>
            LET r == createCommission(commissions, id, a, cu)
            IN  /\ r.result.kind = "NotFound"
                /\ r.map = commissions
                /\ DOMAIN r.map = DOMAIN commissions
    /\ (lastResult.op = "createCommission" /\ lastResult.kind # "Ok")
         => lastResult.kind = "NotFound"
C12_Witness ==
    /\ lastResult.op = "createCommission"
    /\ lastResult.kind = "NotFound"
    /\ lastResult.msg = <<"cannot create the commission: customer=", 0,
                          " not found">>
    /\ DOMAIN artists # {}
    /\ DOMAIN customers # {}

\* C13: a rejected creation call (createArtist with an empty name or a zero
\* price, createCustomer with an empty name) returns InvalidInput and inserts
\* nothing: the three maps keep their cardinality.
C13_RejectedCreationInsertsNothing ==
    /\ \A id \in ArtistArgs, name \in Names, price \in Prices, n \in Budgets :
         (name = "" \/ price = 0) =>
            LET r == createArtist(artists, id, name, price, n)
            IN  /\ r.result.kind = "InvalidInput"
                /\ r.map = artists
                /\ Cardinality(DOMAIN r.map) = Cardinality(DOMAIN artists)
    /\ \A id \in CustomerArgs :
         LET r == createCustomer(customers, id, "")
         IN  /\ r.result.kind = "InvalidInput"
             /\ r.map = customers
             /\ Cardinality(DOMAIN r.map) = Cardinality(DOMAIN customers)
C13_Witness ==
    /\ lastResult.op = "createArtist"
    /\ lastResult.kind = "InvalidInput"
    /\ DOMAIN artists = {}
    /\ DOMAIN customers # {}

\* C14: createArtist stores an artist exactly when the name is non-empty, the
\* price is non-zero and the revision budget is >= 0 (0 included), and every
\* stored artist has number_of_revision >= 0.
C14_ArtistBudgetAtLeastZero ==
    /\ \A a \in DOMAIN artists : artists[a].number_of_revision >= 0
    /\ lastResult.op = "createArtist" =>
         \A id \in ArtistIds, name \in Names, price \in Prices, n \in Budgets :
            (createArtist(artists, id, name, price, n).result.kind = "Ok")
              <=> (name # "" /\ price # 0 /\ n >= 0)

\* C15: submitArtwork on an accepted, non-terminal commission returns
\* InvalidInput and changes nothing when the url is empty; with a non-empty
\* url it sets artURL to the url and sets ArtworkSubmitted, leaving
\* remaining_revision and the other flags as they were.
C15_SubmitArtwork ==
    \A c \in DOMAIN commissions :
      (commissions[c].status.Accepted /\ ~Terminal(commissions[c].status)) =>
        /\ LET r == submitArtwork(commissions, c, "")
           IN  /\ r.result.kind = "InvalidInput"
               /\ r.map = commissions
        /\ \A url \in URLs \ {""} :
             LET r == submitArtwork(commissions, c, url)
                 old == commissions[c]
                 new == r.map[c]
             IN  /\ r.result.kind = "Ok"
                 /\ new.artURL = url
                 /\ new.status.ArtworkSubmitted
                 /\ new.remaining_revision = old.remaining_revision
                 /\ \A f \in {"Pending", "Accepted", "Rejected", "Approved",
                              "Cancelled"} : new.status[f] = old.status[f]
                 /\ r.map = [commissions EXCEPT
                               ![c].artURL = url,
                               ![c].status.ArtworkSubmitted = TRUE]
C15_Witness ==
    \E c \in DOMAIN commissions :
        /\ lastResult = Ok("submitArtwork", c)
        /\ commissions[c].artURL = "u2"
        /\ commissions[c].status.ArtworkSubmitted
        /\ commissions[c].remaining_revision
             = artists[commissions[c].artistID].number_of_revision

\* C16: for every combination of the six flags and every operation,
\* checkCommissionValidity answers with the first matching rule of the chain
\* Cancelled, Approved, Rejected, not yet accepted (operations other than
\* accept/reject), already accepted (accept/reject), artwork not finished
\* (approve/request revision), as "cannot <operation>: <reason>", and with
\* "valid" when no rule matches; every handler turns a denial into
\* InvalidTransaction carrying that message.
AllStatuses ==
    [{"Pending", "Accepted", "Rejected", "ArtworkSubmitted", "Approved",
      "Cancelled"} -> BOOLEAN]
AcceptOrReject == {"accept commission", "reject commission"}
ApproveOrRevision == {"approve commission", "request revision"}
\* the chain as a table: <<rule applies, reason>>, in precedence order
PrecedenceChain(status, methodType) ==
    << <<status["Cancelled"], "commission has been cancelled">>,
       <<status["Approved"], "commission has ended">>,
       <<status["Rejected"], "commission has been rejected">>,
       <<~status["Accepted"] /\ methodType \notin AcceptOrReject,
         "commission has yet to be accepted">>,
       <<status["Accepted"] /\ methodType \in AcceptOrReject,
         "commission has been accepted">>,
       <<~status["ArtworkSubmitted"] /\ methodType \in ApproveOrRevision,
         "artwork not finished">> >>
FirstMatch(status, methodType) ==
    LET chain == PrecedenceChain(status, methodType)
        matching == {i \in DOMAIN chain : chain[i][1]}
    IN  IF matching = {} THEN <<"valid">>
        ELSE LET first == CHOOSE i \in matching : \A j \in matching : i <= j
             IN  <<"cannot ", methodType, ": ", chain[first][2]>>
HandlerOf(methodType, store, c) ==
    CASE methodType = "accept commission" -> acceptCommission(store, c)
      [] methodType = "reject commission" -> rejectCommission(store, c)
      [] methodType = "submit artwork" -> submitArtwork(store, c, "u1")
      [] methodType = "request revision" -> requestRevision(store, c)
      [] methodType = "approve commission" -> approveCommission(store, c)
      [] methodType = "cancel commission" -> cancelCommission(store, c)
C16_GuardPrecedence ==
    \* the table over all statuses does not depend on the state: it is
    \* evaluated once, in the initial state
    /\ lastResult.kind = "none" =>
         \A status \in AllStatuses, methodType \in MethodTypes :
            checkCommissionValidity(status, methodType)
              = FirstMatch(status, methodType)
    /\ \A c \in DOMAIN commissions, methodType \in MethodTypes :
         LET expected == FirstMatch(commissions[c].status, methodType)
             r == HandlerOf(methodType, commissions, c)
         IN  /\ checkCommissionValidity(commissions[c].status, methodType)
                  = expected
             /\ IF expected # <<"valid">>
                THEN /\ r.result.kind = "InvalidTransaction"
                     /\ r.result.msg = expected
                     /\ r.map = commissions
                ELSE r.result.kind # "InvalidTransaction"
C16_Witness ==
    \E c \in DOMAIN commissions :
        /\ lastResult.id = c
        /\ lastResult.op = "approveCommission"
        /\ lastResult.kind = "InvalidTransaction"
        /\ lastResult.msg = <<"cannot ", "approve commission", ": ",
                              "artwork not finished">>
        /\ commissions[c].status.Accepted

\* ------------------------------------------------------- ledger claims
\* C17: remaining_revision of a commission never grows, and the only call
\* that changes it is a successful requestRevision on that commission.
C17_RemainingRevisionNonIncreasing ==
    [][\A c \in DOMAIN commissions :
         /\ c \in DOMAIN commissions'
         /\ commissions'[c].remaining_revision
              <= commissions[c].remaining_revision
         /\ commissions'[c].remaining_revision
              # commissions[c].remaining_revision
            => lastResult' = Ok("requestRevision", c)
      ]_vars
C17_Witness ==
    \E c \in DOMAIN commissions :
        /\ lastResult = Ok("requestRevision", c)
        /\ commissions[c].remaining_revision
             < artists[commissions[c].artistID].number_of_revision
        /\ commissions[c].artURL = "u2"

\* C18: the commissions map is append-only: a stored id stays stored, the set
\* of ids grows by exactly one on a successful createCommission and not at
\* all on any other call.
C18_CommissionsAppendOnly ==
    [][/\ DOMAIN commissions \subseteq DOMAIN commissions'
       /\ IF lastResult'.op = "createCommission" /\ lastResult'.kind = "Ok"
          THEN Cardinality(DOMAIN commissions')
                 = Cardinality(DOMAIN commissions) + 1
          ELSE DOMAIN commissions' = DOMAIN commissions
      ]_vars
C18_Witness ==
    \E c \in DOMAIN commissions :
        /\ lastResult = Ok("cancelCommission", c)
        /\ commissions[c].status.Cancelled
        /\ Cardinality(DOMAIN commissions) >= 1

C20_ReferentialIntegrity ==
    \A c \in DOMAIN commissions :
        /\ commissions[c].artistID \in DOMAIN artists
        /\ commissions[c].customerID \in DOMAIN customers
C20_Witness ==
    \E c \in DOMAIN commissions :
        /\ lastResult = Ok("acceptCommission", c)
        /\ artists[commissions[c].artistID].artistID = commissions[c].artistID
        /\ customers[commissions[c].customerID].customerID
             = commissions[c].customerID

\* ------------------------------------------------------ lifecycle claims
\* C21: a commission with Approved set also has Accepted set, ArtworkSubmitted
\* set and a non-empty artURL; approveCommission succeeds only on a commission
\* that is accepted and whose artwork is submitted (no revision request since
\* the last successful submission).
C21_ApprovedImpliesAcceptedAndSubmitted ==
    \A c \in DOMAIN commissions :
        /\ commissions[c].status.Approved =>
              /\ commissions[c].status.Accepted
              /\ commissions[c].status.ArtworkSubmitted
              /\ commissions[c].artURL # ""
        /\ approveCommission(commissions, c).result.kind = "Ok" =>
              /\ commissions[c].status.Accepted
              /\ commissions[c].status.ArtworkSubmitted
              /\ commissions[c].artURL # ""
        /\ lastResult = Ok("requestRevision", c) =>
              approveCommission(commissions, c).result.kind = "InvalidTransaction"
C21_Witness ==
    \E c \in DOMAIN commissions :
        /\ lastResult = Ok("approveCommission", c)
        /\ commissions[c].status.Approved
        /\ commissions[c].status.Accepted
        /\ commissions[c].status.ArtworkSubmitted
        /\ commissions[c].artURL = "u1"
        /\ revisionsDone[c] = 1

\* the artist's number_of_revision when the commission was created (artist
\* records never change once stored)
InitialBudget(c) == artists[commissions[c].artistID].number_of_revision

\* C22: for every commission the number of successful requestRevision calls
\* never exceeds the artist's number_of_revision at creation: remaining_revision
\* plus that number equals the initial budget, and the number is at most the
\* initial budget.
C22_RevisionsBoundedByBudget ==
    \A c \in DOMAIN commissions :
        /\ commissions[c].remaining_revision + revisionsDone[c] = InitialBudget(c)
        /\ revisionsDone[c] <= InitialBudget(c)
        /\ requestRevision(commissions, c).result.kind = "Ok" =>
              revisionsDone[c] + 1 <= InitialBudget(c)

\* C24: submitArtwork with a non-empty url on an accepted, non-terminal
\* commission whose ArtworkSubmitted is already set succeeds again: it replaces
\* artURL by the new url, keeps ArtworkSubmitted set and leaves
\* remaining_revision (and the rest of the record) as it was, and the
\* commission can be resubmitted again afterwards: replacing artwork consumes
\* no revision budget.
C24_ResubmitReplacesArtwork ==
    \A c \in DOMAIN commissions :
      (/\ commissions[c].status.Accepted
       /\ ~Terminal(commissions[c].status)
       /\ commissions[c].status.ArtworkSubmitted) =>
        \A url \in URLs \ {""} :
          LET r == submitArtwork(commissions, c, url)
          IN  /\ r.result = Ok("submitArtwork", c)
              /\ r.map[c].artURL = url
              /\ r.map[c].status.ArtworkSubmitted
              /\ r.map[c].remaining_revision = commissions[c].remaining_revision
              /\ r.map = [commissions EXCEPT ![c].artURL = url]
              /\ \A again \in URLs \ {""} :
                   LET rr == submitArtwork(r.map, c, again)
                   IN  /\ rr.result.kind = "Ok"
                       /\ rr.map[c].remaining_revision
                            = commissions[c].remaining_revision
              /\ r.map[c].remaining_revision + revisionsDone[c]
                   = InitialBudget(c)
C24_Witness ==
    \E c \in DOMAIN commissions :
        /\ lastResult = Ok("submitArtwork", c)
        /\ commissions[c].status.Accepted
        /\ commissions[c].status.ArtworkSubmitted
        /\ ~Terminal(commissions[c].status)
        /\ commissions[c].artURL = "u1"
        /\ submitArtwork(commissions, c, "u2").map[c].artURL = "u2"
        /\ commissions[c].remaining_revision = InitialBudget(c)

\* C25: status flags other than ArtworkSubmitted are never cleared: every
\* stored commission has Pending set, in every state (after acceptance and in
\* terminal states too); once Accepted, Approved, Rejected or Cancelled is set
\* on a commission it stays set; ArtworkSubmitted goes from set to clear only
\* by a successful requestRevision on that commission.
C25_FlagsNeverCleared ==
    [][/\ \A c \in DOMAIN commissions : commissions[c].status.Pending
       /\ \A c \in DOMAIN commissions' : commissions'[c].status.Pending
       /\ \A c \in DOMAIN commissions :
            /\ c \in DOMAIN commissions'
            /\ \A f \in {"Pending", "Accepted", "Approved", "Rejected",
                          "Cancelled"} :
                 commissions[c].status[f] => commissions'[c].status[f]
            /\ (commissions[c].status.ArtworkSubmitted
                  /\ ~commissions'[c].status.ArtworkSubmitted)
                 => lastResult' = Ok("requestRevision", c)
      ]_vars
C25_Witness ==
    \E c \in DOMAIN commissions :
        /\ lastResult = Ok("requestRevision", c)
        /\ commissions[c].status =
             [Pending |-> TRUE, Accepted |-> TRUE, Rejected |-> FALSE,
              ArtworkSubmitted |-> FALSE, Approved |-> FALSE,
              Cancelled |-> FALSE]
        /\ commissions[c].artURL # ""

\* ---------------------------------------------------- interleaving claim
\* every successful revision request has consumed one unit of the budget
BudgetAccounted(commission, done) ==
    commission.remaining_revision + done
      = artists[commission.artistID].number_of_revision
\* the calls that did their insert (or returned an error) in the step
Returning == DOMAIN inFlight \ DOMAIN inFlight'
\* the copy the call holds is no longer what is stored: another call's insert
\* on the same commission ran after this call's get
Stale(call) == call.commission # commissions[call.id]
WholeHandler(op, store, commissionID) ==
    CASE op = "approveCommission" -> approveCommission(store, commissionID)
      [] op = "cancelCommission" -> cancelCommission(store, commissionID)
      [] op = "requestRevision" -> requestRevision(store, commissionID)

\* C23 as stated: when the get and the insert of two terminal operations
\* (approve, cancel) on one commission interleave and both succeed, both
\* effects are applied and the commission has two terminal flags set.
C23_InterleavingSetsTwoTerminalFlags ==
    [][\A k \in Returning :
         LET call == inFlight[k]
         IN  (/\ call.op \in {"approveCommission", "cancelCommission"}
              /\ lastResult'.kind = "Ok"
              /\ Stale(call)
              /\ Terminal(commissions[call.id].status))
               => Cardinality(TerminalFlags(commissions'[call.id].status)) = 2
      ]_vars

\* C23 amended: the lifecycle invariants rest on each operation being one
\* step.  A call whose get and insert have no other insert on the same
\* commission in between acts as the whole handler; the only step that
\* changes a terminal commission or breaks the budget accounting is the insert
\* of a call whose get was overtaken by another call on the same commission.
\* Such an insert writes the whole copy, so it erases the other call's effect:
\* a commission never has two terminal flags, but a terminal flag set by a
\* successful call is lost, and two successful revision requests consume one
\* unit of budget.
C23_OnlyInterleavingBreaksInvariants ==
    [][/\ \A c \in DOMAIN commissions :
            /\ Cardinality(TerminalFlags(commissions'[c].status)) <= 1
            /\ (\/ (Terminal(commissions[c].status)
                      /\ commissions'[c] # commissions[c])
                 \/ (BudgetAccounted(commissions[c], revisionsDone[c])
                      /\ ~BudgetAccounted(commissions'[c], revisionsDone'[c])))
                 => \E k \in Returning :
                       /\ inFlight[k].id = c
                       /\ Stale(inFlight[k])
                       /\ lastResult'.kind = "Ok"
                       /\ commissions'[c] =
                            WholeHandler(inFlight[k].op,
                                         Insert(commissions, c,
                                                inFlight[k].commission), c).map[c]
       /\ \A k \in Returning :
            ~Stale(inFlight[k]) =>
               LET whole == WholeHandler(inFlight[k].op, commissions,
                                         inFlight[k].id)
               IN  /\ commissions' = whole.map
                   /\ lastResult' = whole.result
      ]_vars
\* two revision requests succeeded for one unit of budget, the commission is
\* approved, and a cancel that read it before the approval is about to
\* succeed and erase Approved
C23_Witness ==
    \E c \in DOMAIN commissions, k \in DOMAIN inFlight :
        /\ revisionsDone[c] = 2
        /\ commissions[c].remaining_revision = InitialBudget(c) - 1
        /\ commissions[c].status.Approved
        /\ inFlight[k].id = c
        /\ inFlight[k].op = "cancelCommission"
        /\ LET r == WholeHandler("cancelCommission",
                                 Insert(commissions, c, inFlight[k].commission), c)
           IN  /\ r.result.kind = "Ok"
               /\ TerminalFlags(r.map[c].status) = {"Cancelled"}
====
